---- MODULE Spec2Model ----
(***************************************************************************)
(* Model of music_indexer.py: one run of main() after another, the four   *)
(* level traversal of load_songs, the SQLite store behind the SQLAlchemy   *)
(* session, and the worksheet written by setup_worksheet/load_spreadsheet. *)
(*                                                                         *)
(* Strings are sequences of one-character strings, so that comparison,     *)
(* case folding, joining and formatting are computed and not assumed.      *)
(*                                                                         *)
(* What the libraries do is taken as follows.  SQLAlchemy is a 1.x release *)
(* (Engine.execute runs the CREATE TABLE and commits it).  The engine of   *)
(* connect_to_database opens data.dat only at the session's first          *)
(* statement, which is in load_songs.  Song(...) sets all six attributes,  *)
(* so merge() copies all six.  commit() expires the session's objects: the *)
(* query of load_spreadsheet returns what the table holds.  Calls on the   *)
(* worksheet succeed; a listing call on the drive may raise.               *)
(***************************************************************************)
EXTENDS Naturals, Sequences, FiniteSets

\* Longest index_paths list the configuration file is given in the model.
MaxRoots == 2

----------------------------------------------------------------------------
\* Characters and strings

\* Printable ASCII in code order, codes 32..126: Ascii[i] has code i + 31.
\* Code 96 (the grave accent) is held by the placeholder "grave".
Ascii ==
  << " ", "!",
     "\"",
     "#", "$", "%", "&", "'", "(", ")", "*", "+", ",", "-", ".", "/",
     "0", "1", "2", "3", "4", "5", "6", "7", "8", "9", ":", ";", "<", "=", ">", "?",
     "@", "A", "B", "C", "D", "E", "F", "G", "H", "I", "J", "K", "L", "M", "N", "O",
     "P", "Q", "R", "S", "T", "U", "V", "W", "X", "Y", "Z", "[", "\\", "]", "^", "_",
     "grave", "a", "b", "c", "d", "e", "f", "g", "h", "i", "j", "k", "l", "m", "n", "o",
     "p", "q", "r", "s", "t", "u", "v", "w", "x", "y", "z", "{", "|", "}", "~" >>

Chars == { Ascii[i] : i \in 1..Len(Ascii) }

OrdTable == [ c \in Chars |-> 31 + (CHOOSE i \in 1..Len(Ascii) : Ascii[i] = c) ]

Ord(c) == OrdTable[c]

Chr(n) == Ascii[n - 31]

IsUpper(c) == Ord(c) >= 65 /\ Ord(c) <= 90

IsDigit(c) == Ord(c) >= 48 /\ Ord(c) <= 57

\* ASCII case folding: str.lower() on ASCII text, and the folding of NOCASE.
LowerChar(c) == IF IsUpper(c) THEN Chr(Ord(c) + 32) ELSE c

Lower(s) == [ i \in 1..Len(s) |-> LowerChar(s[i]) ]

\* Byte-wise order of two strings: the first difference decides, and a proper
\* prefix sorts first.
RECURSIVE StrLess(_, _)
StrLess(s, t) ==
  IF t = << >> THEN FALSE
  ELSE IF s = << >> THEN TRUE
  ELSE IF Ord(Head(s)) # Ord(Head(t)) THEN Ord(Head(s)) < Ord(Head(t))
  ELSE StrLess(Tail(s), Tail(t))

\* "sep".join(parts)
RECURSIVE Join(_, _)
Join(sep, parts) ==
  IF parts = << >> THEN << >>
  ELSE IF Len(parts) = 1 THEN parts[1]
  ELSE parts[1] \o sep \o Join(sep, Tail(parts))

\* Decimal digits of a natural number, as str(n) prints it.
RECURSIVE Digits(_)
Digits(n) ==
  IF n < 10 THEN << Chr(48 + n) >>
  ELSE Digits(n \div 10) \o << Chr(48 + (n % 10)) >>

\* Value of a string of decimal digits.
RECURSIVE DigitsValue(_)
DigitsValue(s) ==
  IF s = << >> THEN 0
  ELSE 10 * DigitsValue(SubSeq(s, 1, Len(s) - 1)) + (Ord(s[Len(s)]) - 48)

----------------------------------------------------------------------------
\* Values held by Python attributes, SQLite columns and sheet cells

Text(s) == [ kind |-> "text", chars |-> s, int |-> 0 ]

Int(n) == [ kind |-> "int", chars |-> << >>, int |-> n ]

None == [ kind |-> "none", chars |-> << >>, int |-> 0 ]

\* What an f-string puts for a value: format(v).
Str(v) ==
  IF v.kind = "text" THEN v.chars
  ELSE IF v.kind = "int" THEN Digits(v.int)
  ELSE << "N", "o", "n", "e" >>

\* dict.get(key) of a listing item: the value, or None when the key is absent.
Get(item, key) == IF key \in DOMAIN item THEN Text(item[key]) ELSE None

----------------------------------------------------------------------------
\* The remote hierarchy and the configuration the runs are given

Folder(id, name) == [ id |-> id, name |-> name, mimeType |-> "folder" ]

File(id, name, link) ==
  [ id |-> id, name |-> name, mimeType |-> "file", webViewLink |-> link ]

FileNoLink(id, name) == [ id |-> id, name |-> name, mimeType |-> "file" ]

\* Children of each folder of the remote drive, in listing order.
\*   R1: zara/ Anna/ readme          R2: Anna/ 9/ 010/
\*   zara: guitar/ drums/            Anna: Guitar/ ukulele/
\*   9: guitar/                      010: guitar/
\* The song S1 lies in two folders (zara/guitar and Anna/ukulele); the artist
\* folder Anna lies under both roots.
DriveChildren(id) ==
  CASE id = << "R", "1" >> ->
         << Folder(<< "A", "1" >>, << "z", "a", "r", "a" >>),
            Folder(<< "A", "2" >>, << "A", "n", "n", "a" >>),
            File(<< "F", "1" >>, << "r", "e", "a", "d", "m", "e" >>, << "u", "0" >>) >>
    [] id = << "R", "2" >> ->
         << Folder(<< "A", "2" >>, << "A", "n", "n", "a" >>),
            Folder(<< "A", "3" >>, << "9" >>),
            Folder(<< "A", "4" >>, << "0", "1", "0" >>) >>
    [] id = << "A", "1" >> ->
         << Folder(<< "I", "1" >>, << "g", "u", "i", "t", "a", "r" >>),
            Folder(<< "I", "2" >>, << "d", "r", "u", "m", "s" >>) >>
    [] id = << "A", "2" >> ->
         << Folder(<< "I", "3" >>, << "G", "u", "i", "t", "a", "r" >>),
            Folder(<< "I", "4" >>, << "u", "k", "u", "l", "e", "l", "e" >>) >>
    [] id = << "A", "3" >> ->
         << Folder(<< "I", "5" >>, << "g", "u", "i", "t", "a", "r" >>) >>
    [] id = << "A", "4" >> ->
         << Folder(<< "I", "6" >>, << "g", "u", "i", "t", "a", "r" >>) >>
    [] id = << "I", "1" >> ->
         << File(<< "S", "1" >>, << "S", "o", "n", "g", "1" >>, << "u", "1" >>),
            FileNoLink(<< "S", "2" >>, << "1", "0" >>) >>
    [] id = << "I", "2" >> ->
         << File(<< "S", "3" >>, << "B", "e", "a", "t" >>, << "u", "3" >>) >>
    [] id = << "I", "3" >> ->
         << File(<< "S", "4" >>, << "R", "i", "f", "f" >>, << "u", "4" >>) >>
    [] id = << "I", "4" >> ->
         << File(<< "S", "1" >>, << "S", "o", "n", "g", "1" >>, << "u", "1" >>),
            File(<< "S", "5" >>, << "b", "l", "u", "e" >>, << "u", "5" >>) >>
    [] id = << "I", "5" >> ->
         << File(<< "S", "6" >>, << "b" >>, << "u", "6" >>) >>
    [] id = << "I", "6" >> ->
         << File(<< "S", "7" >>, << "a" >>, << "u", "7" >>) >>
    [] OTHER -> << >>

\* The folders a run can ask the drive to list.
FolderIds ==
  { << "R", "1" >>, << "R", "2" >>,
    << "A", "1" >>, << "A", "2" >>, << "A", "3" >>, << "A", "4" >>,
    << "I", "1" >>, << "I", "2" >>, << "I", "3" >>, << "I", "4" >>,
    << "I", "5" >>, << "I", "6" >> }

\* The roots a configuration's index_paths can name: {id, name}.
RootChoices ==
  { [ id |-> << "R", "1" >>, name |-> << "L", "i", "b" >> ],
    [ id |-> << "R", "2" >>, name |-> << "A", "l", "t" >> ] }

\* index_paths: every list of at most MaxRoots roots, repeats included.
IndexPathsChoices ==
  UNION { [ 1..n -> RootChoices ] : n \in 0..MaxRoots }

\* Titles of the workbook's worksheets, and the sheet_name settings tried.
WorksheetTitles == { "Songs", "Archive" }

SheetNameChoices == { "Songs", "Missing" }

\* files().list(q="'id' in parents").execute().get("files", [])
get_files(id) == DriveChildren(id)

\* The same listing with mimeType = folder in the query.
get_folders(id) ==
  SelectSeq(DriveChildren(id), LAMBDA item : item.mimeType = "folder")

----------------------------------------------------------------------------
\* The SQLite store behind the session

\* A column declared STRING has NUMERIC affinity: text that is a well-formed
\* integer literal is stored as an INTEGER, any other text as it is.  Of the
\* literal forms only the bare digit string occurs among the names of the
\* drive above.
ColumnAffinity(v) ==
  IF v.kind = "text" /\ v.chars # << >>
     /\ \A i \in 1..Len(v.chars) : IsDigit(v.chars[i])
  THEN Int(DigitsValue(v.chars))
  ELSE v

\* The row of table songs an INSERT or UPDATE of a Song leaves: artist, name,
\* instrument, location and document_id are declared STRING, link has no
\* declared type.
StoredRow(song) ==
  [ document_id |-> ColumnAffinity(song.document_id),
    artist      |-> ColumnAffinity(song.artist),
    name        |-> ColumnAffinity(song.name),
    instrument  |-> ColumnAffinity(song.instrument),
    location    |-> ColumnAffinity(song.location),
    link        |-> song.link ]

\* Storage classes in SQLite's sort order: NULL, then numbers, then text.
ClassRank(v) == IF v.kind = "none" THEN 0 ELSE IF v.kind = "int" THEN 1 ELSE 2

\* a < b for two values of a COLLATE NOCASE column.
NoCaseLess(a, b) ==
  IF ClassRank(a) # ClassRank(b) THEN ClassRank(a) < ClassRank(b)
  ELSE IF a.kind = "int" THEN a.int < b.int
  ELSE IF a.kind = "text" THEN StrLess(Lower(a.chars), Lower(b.chars))
  ELSE FALSE

NoCaseEqual(a, b) == ~NoCaseLess(a, b) /\ ~NoCaseLess(b, a)

\* ORDER BY songs.artist, songs.name, songs.instrument: r1 sorts before r2.
OrderByLess(r1, r2) ==
  \/ NoCaseLess(r1.artist, r2.artist)
  \/ /\ NoCaseEqual(r1.artist, r2.artist)
     /\ \/ NoCaseLess(r1.name, r2.name)
        \/ /\ NoCaseEqual(r1.name, r2.name)
           /\ NoCaseLess(r1.instrument, r2.instrument)

\* The results query(Song).order_by(...).all() can return over the rows: every
\* row once, in an order where no row sorts before an earlier one.  Rows equal
\* on all three keys come in either order.
QueryResults(rows) ==
  { q \in [ 1..Cardinality(rows) -> rows ] :
      /\ \A i, j \in 1..Cardinality(rows) : i # j => q[i] # q[j]
      /\ \A i, j \in 1..Cardinality(rows) : i < j => ~OrderByLess(q[j], q[i]) }

\* Insert or replace by primary key, in a table or in a dict keyed by id.
Upsert(rows, row) ==
  { r \in rows : r.document_id # row.document_id } \cup { row }

\* A merge that leaves an object the session already holds as it is.
MergeKeepFirst(sess, song) ==
  IF \E r \in sess : r.document_id = song.document_id THEN sess
  ELSE sess \cup { song }

\* Session.merge(s): the state of s replaces, attribute by attribute, that of
\* the session's object with the same primary key, or s is added.
Merge(sess, song) == Upsert(sess, song)

\* A commit that writes nothing.
FlushNothing(rows, sess) == rows

\* Session.commit(): the pending objects are written to the table.
RECURSIVE Flush(_, _)
Flush(rows, sess) ==
  IF sess = {} THEN rows
  ELSE LET s == CHOOSE x \in sess : TRUE
       IN  Flush(Upsert(rows, StoredRow(s)), sess \ { s })

NoFile == [ exists |-> FALSE, rows |-> {} ]

\* os.path.exists(f) and os.unlink(f)
Unlink(file) == NoFile

\* create_engine on the path and the CREATE TABLE of SCHEMA: a new file with
\* an empty table songs.
CreateTable(file) == [ exists |-> TRUE, rows |-> {} ]

----------------------------------------------------------------------------
\* The worksheet

HeaderRow ==
  << Text(<< "A", "r", "t", "i", "s", "t" >>),
     Text(<< "N", "a", "m", "e" >>),
     Text(<< "I", "n", "s", "t", "r", "u", "m", "e", "n", "t" >>),
     Text(<< "L", "o", "c", "a", "t", "i", "o", "n" >>),
     Text(<< "D", "o", "c", "u", "m", "e", "n", "t", " ", "I", "D" >>) >>

\* f'=HYPERLINK("{link}", "{name}")'
Quote == << "\"" >>

Hyperlink(link, name) ==
  Text(<< "=", "H", "Y", "P", "E", "R", "L", "I", "N", "K", "(" >>
       \o Quote \o Str(link) \o Quote \o << ",", " " >>
       \o Quote \o Str(name) \o Quote \o << ")" >>)

\* sheet.update_cell(row, col, value): the cell is set; a row or cell the grid
\* does not have yet is made of empty cells.
BlankRow(n) == [ i \in 1..n |-> Text(<< >>) ]

UpdateCell(sh, row, col, value) ==
  LET tall == IF row <= Len(sh) THEN sh
              ELSE sh \o [ i \in 1..(row - Len(sh)) |-> BlankRow(col) ]
      wide == IF col <= Len(tall[row]) THEN tall[row]
              ELSE tall[row] \o BlankRow(col - Len(tall[row]))
  IN  [ tall EXCEPT ![row] = [ wide EXCEPT ![col] = value ] ]

----------------------------------------------------------------------------
\* State

VARIABLES
  pc,                   \* where main() stands
  index_paths,          \* config.get("index_paths")
  sheet_name,           \* config.get("sheet_name")
  datafile,             \* data.dat on disk: whether it exists, its committed rows
  dbsession,            \* the Song objects pending in the session
  all_songs,            \* load_songs' dict, as its set of values (keyed by id)
  sheet,                \* the worksheet's rows of cells
  path_i,               \* position of "for path in index_paths"
  artists,              \* result of get_folders for the current root
  artist_i,             \* position of "for artist in artists"
  instruments_folders,  \* result of get_files for the current artist
  instrument_i,         \* position of "for instrument_folder in ..."
  songs,                \* result of get_files for the current instrument folder
  song_i,               \* position of "for song in songs"
  query,                \* result of the ordered query of load_spreadsheet
  query_i,              \* position of "for song in query"
  row_number,           \* load_spreadsheet's row_number
  calls,                \* this run: remote listing calls per folder id
  ingested,             \* this run: the Song objects built, in order
  seen_folders,         \* this run: the instrument-level items iterated
  failed_at,            \* this run: the folder whose listing raised, if any
  start_file,           \* this run: data.dat as it was when the process started
  sheet_written         \* this run: whether the worksheet was written to

vars ==
  << pc, index_paths, sheet_name, datafile, dbsession, all_songs, sheet, path_i,
     artists, artist_i, instruments_folders, instrument_i, songs, song_i, query,
     query_i, row_number, calls, ingested, seen_folders, failed_at, start_file,
     sheet_written >>

persistent == << datafile, sheet >>

config == << index_paths, sheet_name >>

loop_state ==
  << path_i, artists, artist_i, instruments_folders, instrument_i, songs, song_i >>

publish_state == << query, query_i, row_number >>

NoFolder == << >>

\* A process of main() at its first statement: nothing in memory, the
\* configuration read from the file.
ProcessStart ==
  /\ pc = "connect_to_database"
  /\ index_paths \in IndexPathsChoices
  /\ sheet_name \in SheetNameChoices
  /\ dbsession = {}
  /\ all_songs = {}
  /\ path_i = 1
  /\ artists = << >>
  /\ artist_i = 1
  /\ instruments_folders = << >>
  /\ instrument_i = 1
  /\ songs = << >>
  /\ song_i = 1
  /\ query = << >>
  /\ query_i = 1
  /\ row_number = 0
  /\ calls = [ id \in FolderIds |-> 0 ]
  /\ ingested = << >>
  /\ seen_folders = {}
  /\ failed_at = NoFolder
  /\ sheet_written = FALSE

Init ==
  /\ ProcessStart
  /\ datafile = NoFile
  /\ start_file = NoFile
  /\ sheet = << >>

----------------------------------------------------------------------------
\* main()

\* dbsession = connect_to_database(): an existing data.dat is deleted; the
\* engine opens no file until it is first used.
ConnectToDatabase ==
  /\ pc = "connect_to_database"
  /\ datafile' = Unlink(datafile)
  /\ pc' = "find_worksheet"
  /\ UNCHANGED << config, dbsession, all_songs, sheet, loop_state, publish_state,
                  calls, ingested, seen_folders, failed_at, start_file,
                  sheet_written >>

\* The loop over workbook.worksheets() and the sys.exit when none matches.
FindWorksheet ==
  /\ pc = "find_worksheet"
  /\ pc' = IF \E title \in WorksheetTitles : title = sheet_name
           THEN "setup_worksheet"
           ELSE "exit_no_sheet"
  /\ UNCHANGED << config, persistent, dbsession, all_songs, loop_state,
                  publish_state, calls, ingested, seen_folders, failed_at,
                  start_file, sheet_written >>

\* setup_worksheet(worksheet): clear, then the header row.
SetupWorksheet ==
  /\ pc = "setup_worksheet"
  /\ sheet' = << HeaderRow >>
  /\ sheet_written' = TRUE
  /\ pc' = "initialize_database"
  /\ UNCHANGED << config, datafile, dbsession, all_songs, loop_state,
                  publish_state, calls, ingested, seen_folders, failed_at,
                  start_file >>

\* initialize_database(dbsession): delete data.dat, create it with the table.
InitializeDatabase ==
  /\ pc = "initialize_database"
  /\ datafile' = CreateTable(Unlink(datafile))
  /\ pc' = "for_path"
  /\ UNCHANGED << config, dbsession, all_songs, sheet, loop_state, publish_state,
                  calls, ingested, seen_folders, failed_at, start_file,
                  sheet_written >>

----------------------------------------------------------------------------
\* load_songs(drive_svc, index_paths, dbsession)

Guitar == << "g", "u", "i", "t", "a", "r" >>

Ukulele == << "u", "k", "u", "l", "e", "l", "e" >>

\* A name test that lets every folder through.
RecognizedAnyName(instrument) == TRUE

\* instrument in ["guitar", "ukulele"]
Recognized(instrument) == instrument \in { Text(Guitar), Text(Ukulele) }

\* The Song built for one item of an instrument folder.
MakeSong(path, artist, instrument_folder, song) ==
  LET path_name   == Get(path, "name")
      artist_name == Get(artist, "name")
      instrument  == Get(instrument_folder, "name")
      song_path_name ==
        Join(<< "/" >>, << path_name.chars, artist_name.chars, instrument.chars >>)
  IN  [ document_id |-> Get(song, "id"),
        artist      |-> artist_name,
        name        |-> Get(song, "name"),
        instrument  |-> instrument,
        location    |-> Text(song_path_name),
        link        |-> Get(song, "webViewLink") ]

\* all_songs[song_doc_id] = s
DictSet(dict, s) == Upsert(dict, s)

Called(id) == [ calls EXCEPT ![id] = @ + 1 ]

\* for path in index_paths: artists = get_folders(drive_svc, path_id)
GetFolders ==
  /\ pc = "for_path"
  /\ path_i <= Len(index_paths)
  /\ artists' = get_folders(index_paths[path_i].id)
  /\ calls' = Called(index_paths[path_i].id)
  /\ artist_i' = 1
  /\ pc' = "for_artist"
  /\ UNCHANGED << config, persistent, dbsession, all_songs, path_i,
                  instruments_folders, instrument_i, songs, song_i, publish_state,
                  ingested, seen_folders, failed_at, start_file, sheet_written >>

\* The loop over index_paths is exhausted.
ForPathDone ==
  /\ pc = "for_path"
  /\ path_i > Len(index_paths)
  /\ pc' = "commit"
  /\ UNCHANGED << config, persistent, dbsession, all_songs, loop_state,
                  publish_state, calls, ingested, seen_folders, failed_at,
                  start_file, sheet_written >>

\* for artist in artists: instruments_folders = get_files(drive_svc, artist["id"])
GetArtistFiles ==
  /\ pc = "for_artist"
  /\ artist_i <= Len(artists)
  /\ instruments_folders' = get_files(artists[artist_i].id)
  /\ calls' = Called(artists[artist_i].id)
  /\ instrument_i' = 1
  /\ pc' = "for_instrument_folder"
  /\ UNCHANGED << config, persistent, dbsession, all_songs, path_i, artists,
                  artist_i, songs, song_i, publish_state, ingested, seen_folders,
                  failed_at, start_file, sheet_written >>

ForArtistDone ==
  /\ pc = "for_artist"
  /\ artist_i > Len(artists)
  /\ path_i' = path_i + 1
  /\ pc' = "for_path"
  /\ UNCHANGED << config, persistent, dbsession, all_songs, artists, artist_i,
                  instruments_folders, instrument_i, songs, song_i, publish_state,
                  calls, ingested, seen_folders, failed_at, start_file,
                  sheet_written >>

\* for instrument_folder in instruments_folders: the name test, and for a
\* recognized name songs = get_files(drive_svc, instrument_folder["id"])
VisitInstrumentFolder ==
  /\ pc = "for_instrument_folder"
  /\ instrument_i <= Len(instruments_folders)
  /\ LET instrument_folder == instruments_folders[instrument_i]
     IN  /\ seen_folders' = seen_folders \cup { instrument_folder }
         /\ IF Recognized(Get(instrument_folder, "name"))
            THEN /\ songs' = get_files(instrument_folder.id)
                 /\ calls' = Called(instrument_folder.id)
                 /\ song_i' = 1
                 /\ pc' = "for_song"
                 /\ UNCHANGED instrument_i
            ELSE /\ instrument_i' = instrument_i + 1
                 /\ UNCHANGED << songs, calls, song_i, pc >>
  /\ UNCHANGED << config, persistent, dbsession, all_songs, path_i, artists,
                  artist_i, instruments_folders, publish_state, ingested,
                  failed_at, start_file, sheet_written >>

ForInstrumentFolderDone ==
  /\ pc = "for_instrument_folder"
  /\ instrument_i > Len(instruments_folders)
  /\ artist_i' = artist_i + 1
  /\ pc' = "for_artist"
  /\ UNCHANGED << config, persistent, dbsession, all_songs, path_i, artists,
                  instruments_folders, instrument_i, songs, song_i, publish_state,
                  calls, ingested, seen_folders, failed_at, start_file,
                  sheet_written >>

\* for song in songs: build s, dbsession.merge(s), all_songs[song_doc_id] = s
IngestSong ==
  /\ pc = "for_song"
  /\ song_i <= Len(songs)
  /\ LET s == MakeSong(index_paths[path_i], artists[artist_i],
                       instruments_folders[instrument_i], songs[song_i])
     IN  /\ dbsession' = Merge(dbsession, s)
         /\ all_songs' = DictSet(all_songs, s)
         /\ ingested' = Append(ingested, s)
  /\ song_i' = song_i + 1
  /\ UNCHANGED << pc, config, persistent, path_i, artists, artist_i,
                  instruments_folders, instrument_i, songs, publish_state, calls,
                  seen_folders, failed_at, start_file, sheet_written >>

ForSongDone ==
  /\ pc = "for_song"
  /\ song_i > Len(songs)
  /\ instrument_i' = instrument_i + 1
  /\ pc' = "for_instrument_folder"
  /\ UNCHANGED << config, persistent, dbsession, all_songs, path_i, artists,
                  artist_i, instruments_folders, songs, song_i, publish_state,
                  calls, ingested, seen_folders, failed_at, start_file,
                  sheet_written >>

\* The folder the next statement asks the drive to list, if it is a listing.
NextListing ==
  IF pc = "for_path" /\ path_i <= Len(index_paths)
    THEN index_paths[path_i].id
  ELSE IF pc = "for_artist" /\ artist_i <= Len(artists)
    THEN artists[artist_i].id
  ELSE IF /\ pc = "for_instrument_folder"
          /\ instrument_i <= Len(instruments_folders)
          /\ Recognized(Get(instruments_folders[instrument_i], "name"))
    THEN instruments_folders[instrument_i].id
  ELSE NoFolder

\* A listing's execute() raises: nothing catches it, and main() ends with the
\* session's pending objects never committed.
ListingFails ==
  /\ NextListing # NoFolder
  /\ calls' = Called(NextListing)
  /\ failed_at' = NextListing
  /\ seen_folders' = IF pc = "for_instrument_folder"
                     THEN seen_folders \cup { instruments_folders[instrument_i] }
                     ELSE seen_folders
  /\ pc' = "failed"
  /\ UNCHANGED << config, persistent, dbsession, all_songs, loop_state,
                  publish_state, ingested, start_file, sheet_written >>

\* dbsession.commit(); return all_songs
Commit ==
  /\ pc = "commit"
  /\ datafile' = [ datafile EXCEPT !.rows = Flush(datafile.rows, dbsession) ]
  /\ dbsession' = {}
  /\ pc' = "query"
  /\ UNCHANGED << config, all_songs, sheet, loop_state, publish_state, calls,
                  ingested, seen_folders, failed_at, start_file, sheet_written >>

----------------------------------------------------------------------------
\* load_spreadsheet(worksheet, dbsession)

\* A row counter that starts on the header row.
FirstDataRowOnHeader == 2 - 1

\* row_number = 2
FirstDataRow == 2

\* row_number = FirstDataRow and the ordered query
Query ==
  /\ pc = "query"
  /\ query' \in QueryResults(datafile.rows)
  /\ query_i' = 1
  /\ row_number' = FirstDataRow
  /\ pc' = "for_row"
  /\ UNCHANGED << config, persistent, dbsession, all_songs, loop_state, calls,
                  ingested, seen_folders, failed_at, start_file, sheet_written >>

\* One pass of the loop: append_row(row), update_cell(row_number, 2, name_href),
\* row_number += 1
AppendRow ==
  /\ pc = "for_row"
  /\ query_i <= Len(query)
  /\ LET song == query[query_i]
         name_href == Hyperlink(song.link, song.name)
         row == << song.artist, song.name, song.instrument, song.location,
                   song.document_id >>
     IN  sheet' = UpdateCell(Append(sheet, row), row_number, 2, name_href)
  /\ row_number' = row_number + 1
  /\ query_i' = query_i + 1
  /\ sheet_written' = TRUE
  /\ UNCHANGED << pc, config, datafile, dbsession, all_songs, loop_state, query,
                  calls, ingested, seen_folders, failed_at, start_file >>

\* The loop is exhausted: columns_auto_resize, and main() returns.
ForRowDone ==
  /\ pc = "for_row"
  /\ query_i > Len(query)
  /\ pc' = "done"
  /\ UNCHANGED << config, persistent, dbsession, all_songs, loop_state,
                  publish_state, calls, ingested, seen_folders, failed_at,
                  start_file, sheet_written >>

\* The process has ended; the program is run again: a process at its first
\* statement, as in ProcessStart, with data.dat and the worksheet as the last
\* run left them.
RunAgain ==
  /\ pc \in { "done", "failed", "exit_no_sheet" }
  /\ pc' = "connect_to_database"
  /\ index_paths' \in IndexPathsChoices
  /\ sheet_name' \in SheetNameChoices
  /\ dbsession' = {}
  /\ all_songs' = {}
  /\ path_i' = 1
  /\ artists' = << >>
  /\ artist_i' = 1
  /\ instruments_folders' = << >>
  /\ instrument_i' = 1
  /\ songs' = << >>
  /\ song_i' = 1
  /\ query' = << >>
  /\ query_i' = 1
  /\ row_number' = 0
  /\ calls' = [ id \in FolderIds |-> 0 ]
  /\ ingested' = << >>
  /\ seen_folders' = {}
  /\ failed_at' = NoFolder
  /\ start_file' = datafile
  /\ sheet_written' = FALSE
  /\ UNCHANGED persistent

Next ==
  \/ ConnectToDatabase
  \/ FindWorksheet
  \/ SetupWorksheet
  \/ InitializeDatabase
  \/ GetFolders
  \/ ForPathDone
  \/ GetArtistFiles
  \/ ForArtistDone
  \/ VisitInstrumentFolder
  \/ ForInstrumentFolderDone
  \/ IngestSong
  \/ ForSongDone
  \/ ListingFails
  \/ Commit
  \/ Query
  \/ AppendRow
  \/ ForRowDone
  \/ RunAgain

Spec == Init /\ [][Next]_vars

----------------------------------------------------------------------------
\* Properties

\* main() is past load_songs: the commit is done and the mapping returned.
AfterLoadSongs == { "query", "for_row", "done" }

\* main() is inside load_songs, the commit not yet done.
InLoadSongs ==
  { "for_path", "for_artist", "for_instrument_folder", "for_song", "commit" }

IngestedIds == { ingested[i].document_id : i \in 1..Len(ingested) }

\* The Song built at the last visit, in traversal order, of an identifier.
LastOccurrence(id) ==
  ingested[CHOOSE i \in 1..Len(ingested) :
             /\ ingested[i].document_id = id
             /\ \A j \in (i + 1)..Len(ingested) : ingested[j].document_id # id]

LowerName(item) == Lower(item.name)

\* C1: once load_songs has returned, the mapping and the committed table each
\* hold one entry per identifier visited, and that entry is, field for field,
\* the one built at the identifier's last visit (in the table: as the columns
\* store it); nothing of an earlier visit is left.
C1_LastOccurrenceWins ==
  pc \in AfterLoadSongs =>
    /\ all_songs = { LastOccurrence(id) : id \in IngestedIds }
    /\ Cardinality(all_songs) = Cardinality(IngestedIds)
    /\ datafile.rows = { StoredRow(LastOccurrence(id)) : id \in IngestedIds }
    /\ Cardinality(datafile.rows) = Cardinality(IngestedIds)

\* A finished run in which an identifier was visited twice with different
\* artist and location.
C1_Witness ==
  /\ pc = "done"
  /\ \E i, j \in 1..Len(ingested) :
       /\ i < j
       /\ ingested[i].document_id = ingested[j].document_id
       /\ ingested[i].artist # ingested[j].artist
       /\ ingested[i].location # ingested[j].location

\* C2: an instrument-level folder whose lower-cased name is neither guitar nor
\* ukulele is never listed, no entry anywhere carries its name as instrument,
\* and no failure of the run comes from it.
C2_UnrecognizedSkipped ==
  \A f \in seen_folders :
    LowerName(f) \notin { Guitar, Ukulele } =>
      /\ calls[f.id] = 0
      /\ failed_at # f.id
      /\ \A e \in all_songs \cup dbsession : e.instrument # Text(f.name)
      /\ pc \in InLoadSongs \cup AfterLoadSongs =>
           \A r \in datafile.rows : r.instrument # Text(f.name)

\* A finished run that came across such a folder, one with children.
C2_Witness ==
  /\ pc = "done"
  /\ \E f \in seen_folders :
       /\ LowerName(f) \notin { Guitar, Ukulele }
       /\ DriveChildren(f.id) # << >>

\* C3: once load_songs has returned, every item of every instrument-level
\* folder whose lower-cased name is guitar or ukulele has had an entry built
\* for it, with the folder's name, in its own case, as instrument.
C3_CaseInsensitiveRecognition ==
  pc \in AfterLoadSongs =>
    \A f \in seen_folders :
      LowerName(f) \in { Guitar, Ukulele } =>
        \A k \in 1..Len(DriveChildren(f.id)) :
          \E i \in 1..Len(ingested) :
            /\ ingested[i].document_id = Text(DriveChildren(f.id)[k].id)
            /\ ingested[i].instrument = Text(f.name)

\* C4: when main() exits because no worksheet has the configured name, data.dat
\* is as it was when the process started and the worksheet was not written.
C4_NoSheetNothingDestroyed ==
  pc = "exit_no_sheet" => datafile = start_file /\ ~sheet_written

\* C5: the worksheet is written only once load_songs has returned with its
\* commit done; a run ended by a failed listing has not written to it.
C5_SheetWrittenAfterIndexing ==
  /\ sheet_written => pc \in AfterLoadSongs
  /\ pc = "failed" => ~sheet_written

\* C6: within a run no folder is listed remotely more than once.
C6_ListedAtMostOnce == \A id \in FolderIds : calls[id] <= 1

\* The sheet row load_spreadsheet is to leave for an entry of the query.
ExpectedRow(song) ==
  << song.artist, Hyperlink(song.link, song.name), song.instrument,
     song.location, song.document_id >>

\* C7: while load_spreadsheet runs and after it, the sheet is the header row
\* followed by one row per entry already taken from the query, row k + 1
\* holding the k-th entry's fields with the hyperlink of that entry's link and
\* name in column 2; at the end that is every entry of the store.
C7_RowsTrackEntries ==
  pc \in { "for_row", "done" } =>
    /\ Len(query) = Cardinality(datafile.rows)
    /\ Len(sheet) = query_i
    /\ sheet[1] = HeaderRow
    /\ \A k \in 1..(query_i - 1) : sheet[k + 1] = ExpectedRow(query[k])
    /\ pc = "done" => Len(sheet) = Cardinality(datafile.rows) + 1

\* A finished run that published at least two entries.
C7_Witness == pc = "done" /\ Len(query) >= 2 /\ Len(sheet) = Len(query) + 1

\* Case-insensitive comparison of two values as text.
TextLess(a, b) == StrLess(Lower(Str(a)), Lower(Str(b)))

TextEqual(a, b) == Lower(Str(a)) = Lower(Str(b))

TextKeyLess(r1, r2) ==
  \/ TextLess(r1.artist, r2.artist)
  \/ /\ TextEqual(r1.artist, r2.artist)
     /\ \/ TextLess(r1.name, r2.name)
        \/ /\ TextEqual(r1.name, r2.name)
           /\ TextLess(r1.instrument, r2.instrument)

\* C8: the ordered query returns every row of the store once, in the order of
\* (artist, name, instrument) compared as text without regard to case.
C8_SortedCaseInsensitive ==
  pc \in { "for_row", "done" } =>
    /\ { query[i] : i \in 1..Len(query) } = datafile.rows
    /\ Len(query) = Cardinality(datafile.rows)
    /\ \A i, j \in 1..Len(query) : i < j => ~TextKeyLess(query[j], query[i])

\* location is root_name/artist/instrument of the entry's own fields, for
\* the name of some configured root.
LocationInSync(e) ==
  \E i \in 1..Len(index_paths) :
    Str(e.location)
      = Join(<< "/" >>, << index_paths[i].name, Str(e.artist), Str(e.instrument) >>)

\* C9: throughout load_songs and after it, every entry of the mapping, of the
\* session and of the table has location in sync with its artist and
\* instrument.
C9_LocationInSync ==
  pc \in InLoadSongs \cup AfterLoadSongs =>
    \A e \in all_songs \cup dbsession \cup datafile.rows : LocationInSync(e)

\* C10: the table exists and is empty all through a run's ingestion, whatever
\* an earlier run left in data.dat; after the commit it holds exactly the
\* identifiers this run visited.
C10_StoreRebuiltEachRun ==
  /\ pc \in InLoadSongs => datafile.exists /\ datafile.rows = {}
  /\ pc \in AfterLoadSongs =>
       { r.document_id : r \in datafile.rows }
         = { ColumnAffinity(id) : id \in IngestedIds }

\* A finished run that visited songs, started on a data.dat holding a row of
\* an earlier run that its own store does not have.
C10_Witness ==
  /\ pc = "done"
  /\ datafile.rows # {}
  /\ \E r \in start_file.rows :
       r.document_id \notin { x.document_id : x \in datafile.rows }

====
